---- MODULE Spec2Model ----
(***************************************************************************)
(* A sparse, coordinate-addressed matrix (class Matrix of sparse.hpp) and  *)
(* the operations its Python binding (main.cpp) exposes: point set/get,    *)
(* shape, transpose, bulk set, dense and sparse range read, range write.   *)
(***************************************************************************)
EXTENDS Integers, Sequences, FiniteSets, TLC

\* ------------------------------------------------------------------ bounds
\* Small coordinates are 0..MaxIdx; the largest value of the key's
\* unsigned type is always one of the coordinates.
MaxIdx == 1
\* Cap on the number of entries the map may hold (the map itself is unbounded).
MaxEntries == 2
\* Longest array handed to bulk set.
MaxBatch == 2

\* --------------------------------------------------------------- data types
\* Key = std::tuple<uint32_t, uint32_t>, and i_, j_ are uint32_t. TLC's own
\* integers end at 2^31 - 1, so the unsigned word is kept with its wrap-around
\* but 16 bits wide: UIntMax stands for the largest value of uint32_t.
UIntMax == 65535

\* Arithmetic on the unsigned word wraps.
Wrap32(n) == n % (UIntMax + 1)

Idx == (0..MaxIdx) \cup {UIntMax}

Key == Idx \X Idx

\* A double is a finite number or NaN.
D(x) == [nan |-> FALSE, v |-> x]

NaN == [nan |-> TRUE, v |-> 0]

Doubles == {D(1), NaN}

isnan(d) == d.nan

Max(a, b) == IF a >= b THEN a ELSE b

\* std::unordered_map<Key, double>, as a function on the stored keys.
EmptyMap == [k \in {} |-> NaN]

Count(map, key) == IF key \in DOMAIN map THEN 1 ELSE 0

InsertOrAssign(map, key, x) ==
    [k \in (DOMAIN map) \cup {key} |-> IF k = key THEN x ELSE map[k]]

\* operator[]: yields the stored value, inserting a value-initialised one
\* when the key is absent.
MapIndex(map, key) ==
    IF key \in DOMAIN map
    THEN [value |-> map[key], map |-> map]
    ELSE [value |-> D(0), map |-> InsertOrAssign(map, key, D(0))]

\* ------------------------------------------------------------ class Matrix
\* A Matrix object is the record [data_, i_, j_, ji_] of its members.
NewMatrix == [data_ |-> EmptyMap, i_ |-> 0, j_ |-> 0, ji_ |-> FALSE]

swap_key(key) == <<key[2], key[1]>>

Physical(m, key) == IF m.ji_ THEN swap_key(key) ELSE key

\* Mutant: set that stores the caller's key without translating it.
MatrixSet_Untranslated(m, key, x) ==
    [m EXCEPT !.i_ = Max(key[1], m.i_),
              !.j_ = Max(key[2], m.j_),
              !.data_ = InsertOrAssign(m.data_, key, x)]

\* Mutant: set that assigns the bound instead of raising it.
MatrixSet_Assigning(m, key, x) ==
    LET pkey == Physical(m, key)
    IN  [m EXCEPT !.i_ = pkey[1],
                  !.j_ = pkey[2],
                  !.data_ = InsertOrAssign(m.data_, pkey, x)]

MatrixSet(m, key, x) ==
    LET pkey == Physical(m, key)
    IN  [m EXCEPT !.i_ = Max(pkey[1], m.i_),
                  !.j_ = Max(pkey[2], m.j_),
                  !.data_ = InsertOrAssign(m.data_, pkey, x)]

\* What a call returns: a double, or the index_error with the numbers its
\* message carries.
Returned(d) == [kind |-> "value", v |-> d, axis |-> 0, index |-> 0, size |-> 0]

OutOfBounds(index, axis, size) ==
    [kind |-> "OutOfBounds", v |-> NaN, axis |-> axis, index |-> index,
     size |-> size]

\* Mutant: get that numbers the axes of its error physically.
MatrixGet_PhysicalAxis(m, key, filter) ==
    LET pkey == Physical(m, key)
        i == pkey[1]
        j == pkey[2]
    IN  IF Count(m.data_, pkey) = 0
        THEN IF filter
             THEN Returned(NaN)
             ELSE IF i > m.i_
                  THEN OutOfBounds(i, 0, Wrap32(m.i_ + 1))
                  ELSE IF j > m.j_
                       THEN OutOfBounds(j, 1, Wrap32(m.j_ + 1))
                       ELSE Returned(D(0))
        ELSE Returned(MapIndex(m.data_, pkey).value)

\* Mutant: get whose bounds tests are i >= i_ and j >= j_.
MatrixGet_OffByOne(m, key, filter) ==
    LET pkey == Physical(m, key)
        i == pkey[1]
        j == pkey[2]
    IN  IF Count(m.data_, pkey) = 0
        THEN IF filter
             THEN Returned(NaN)
             ELSE IF i >= m.i_
                  THEN OutOfBounds(i, IF m.ji_ THEN 1 ELSE 0, Wrap32(m.i_ + 1))
                  ELSE IF j >= m.j_
                       THEN OutOfBounds(j, IF m.ji_ THEN 0 ELSE 1,
                                        Wrap32(m.j_ + 1))
                       ELSE Returned(D(0))
        ELSE Returned(MapIndex(m.data_, pkey).value)

\* Mutant: get that tests the bounds before it looks at filter.
MatrixGet_BoundsFirst(m, key, filter) ==
    LET pkey == Physical(m, key)
        i == pkey[1]
        j == pkey[2]
    IN  IF Count(m.data_, pkey) = 0
        THEN IF i > m.i_
             THEN OutOfBounds(i, IF m.ji_ THEN 1 ELSE 0, Wrap32(m.i_ + 1))
             ELSE IF j > m.j_
                  THEN OutOfBounds(j, IF m.ji_ THEN 0 ELSE 1, Wrap32(m.j_ + 1))
                  ELSE IF filter THEN Returned(NaN) ELSE Returned(D(0))
        ELSE Returned(MapIndex(m.data_, pkey).value)

MatrixGet(m, key, filter) ==
    LET pkey == Physical(m, key)
        i == pkey[1]
        j == pkey[2]
    IN  IF Count(m.data_, pkey) = 0
        THEN IF filter
             THEN Returned(NaN)
             ELSE IF i > m.i_
                  THEN OutOfBounds(i, IF m.ji_ THEN 1 ELSE 0, Wrap32(m.i_ + 1))
                  ELSE IF j > m.j_
                       THEN OutOfBounds(j, IF m.ji_ THEN 0 ELSE 1,
                                        Wrap32(m.j_ + 1))
                       ELSE Returned(D(0))
        ELSE Returned(MapIndex(m.data_, pkey).value)

\* Mutant: get whose return of a default for an absent key inside the bound
\* goes through operator[] as well.
MatrixGetData_Inserting(m, key, filter) ==
    LET pkey == Physical(m, key)
    IN  IF Count(m.data_, pkey) = 0 /\ (filter \/ pkey[1] > m.i_ \/ pkey[2] > m.j_)
        THEN m.data_
        ELSE MapIndex(m.data_, pkey).map

\* The map after a get: only the last return goes through operator[].
MatrixGetData(m, key, filter) ==
    LET pkey == Physical(m, key)
    IN  IF Count(m.data_, pkey) = 0
        THEN m.data_
        ELSE MapIndex(m.data_, pkey).map

\* Mutant: shape that ignores the orientation flag.
MatrixShape_Unswapped(m) ==
    IF DOMAIN m.data_ = {}
    THEN <<0, 0>>
    ELSE <<Wrap32(m.i_ + 1), Wrap32(m.j_ + 1)>>

MatrixShape(m) ==
    IF DOMAIN m.data_ = {}
    THEN <<0, 0>>
    ELSE IF m.ji_
         THEN <<Wrap32(m.j_ + 1), Wrap32(m.i_ + 1)>>
         ELSE <<Wrap32(m.i_ + 1), Wrap32(m.j_ + 1)>>

\* Mutant: transpose that sets the flag instead of flipping it.
MatrixTranspose_Setting(m) == [m EXCEPT !.ji_ = TRUE]

MatrixTranspose(m) == [m EXCEPT !.ji_ = ~m.ji_]

\* --------------------------------------------------- the calls of main.cpp
\* The writes of a batch, applied in order through Matrix::set. A write is
\* <<key, value>> with key in the caller's numbering.
RECURSIVE SetAll(_, _)
SetAll(m, writes) ==
    IF writes = <<>>
    THEN m
    ELSE SetAll(MatrixSet(m, Head(writes)[1], Head(writes)[2]), Tail(writes))

\* A numpy array: its shape and its elements in row-major order.
Array(shape, data) == [shape |-> shape, data |-> data]

ndim(a) == Len(a.shape)

check_array_ndim(n, a) == ndim(a) = n

check_ndarray_shape(a1, a2) ==
    /\ ndim(a1) = ndim(a2)
    /\ \A ix \in 1..ndim(a1) : a1.shape[ix] = a2.shape[ix]

\* Mutant: bulk set that walks its arrays from the last entry to the first.
BulkSet_Reversed(m, i, j, x) ==
    IF ~(check_array_ndim(1, i) /\ check_array_ndim(1, j)
         /\ check_array_ndim(1, x))
    THEN [kind |-> "InvalidArgument", m |-> m]
    ELSE IF ~(check_ndarray_shape(i, j) /\ check_ndarray_shape(i, x))
         THEN [kind |-> "InvalidArgument", m |-> m]
         ELSE [kind |-> "ok",
               m |-> SetAll(m, [ix \in 1..Len(x.data) |->
                                   <<<<i.data[Len(x.data) + 1 - ix],
                                       j.data[Len(x.data) + 1 - ix]>>,
                                     x.data[Len(x.data) + 1 - ix]>>])]

\* Matrix.set(i, j, x): the outcome and the object after the call.
BulkSet(m, i, j, x) ==
    IF ~(check_array_ndim(1, i) /\ check_array_ndim(1, j)
         /\ check_array_ndim(1, x))
    THEN [kind |-> "InvalidArgument", m |-> m]
    ELSE IF ~(check_ndarray_shape(i, j) /\ check_ndarray_shape(i, x))
         THEN [kind |-> "InvalidArgument", m |-> m]
         ELSE [kind |-> "ok",
               m |-> SetAll(m, [ix \in 1..Len(x.data) |->
                                   <<<<i.data[ix], j.data[ix]>>, x.data[ix]>>])]

\* An index expression is a tuple of selectors: a single index, or a slice
\* whose start, stop and step are integers or None.
None == <<>>

Some(n) == <<n>>

Index(n) == [index |-> TRUE, at |-> n, start |-> None, stop |-> None,
             step |-> None]

Slice(start, stop, step) ==
    [index |-> FALSE, at |-> 0, start |-> start, stop |-> stop, step |-> step]

\* Mutant: a slice whose bounds are taken as given, without clamping them
\* to the length.
SliceBound_Unclamped(v, length, step) == IF v < 0 THEN v + length ELSE v

\* py::slice::compute resolves a slice against a length as Python does.
SliceBound(v, length, step) ==
    IF v < 0
    THEN IF v + length < 0
         THEN (IF step < 0 THEN -1 ELSE 0)
         ELSE v + length
    ELSE IF v >= length
         THEN (IF step < 0 THEN length - 1 ELSE length)
         ELSE v

compute(s, length) ==
    LET step == IF s.step = None THEN 1 ELSE s.step[1]
        start == IF s.start = None
                 THEN (IF step < 0 THEN length - 1 ELSE 0)
                 ELSE SliceBound(s.start[1], length, step)
        stop == IF s.stop = None
                THEN (IF step < 0 THEN -1 ELSE length)
                ELSE SliceBound(s.stop[1], length, step)
        slicelength ==
            IF step < 0
            THEN (IF stop < start THEN (start - stop - 1) \div (-step) + 1 ELSE 0)
            ELSE (IF start < stop THEN (stop - start - 1) \div step + 1 ELSE 0)
    IN  IF step = 0
        THEN [ok |-> FALSE, start |-> 0, stop |-> 0, step |-> 0,
              slicelength |-> 0]
        ELSE [ok |-> TRUE, start |-> start, stop |-> stop, step |-> step,
              slicelength |-> slicelength]

Selector(d, length) ==
    IF d.index
    THEN [ok |-> TRUE, start |-> d.at, stop |-> d.at, step |-> 1,
          slicelength |-> 1]
    ELSE compute(d, length)

parse_tuple(shape, slices) ==
    IF Len(slices) # 2
    THEN [kind |-> "InvalidArgument", i |-> Selector(Index(0), 0),
          j |-> Selector(Index(0), 0)]
    ELSE LET i == Selector(slices[1], shape[1])
             j == Selector(slices[2], shape[2])
         IN  [kind |-> IF i.ok /\ j.ok THEN "ok" ELSE "InvalidArgument",
              i |-> i, j |-> j]

\* The coordinates the two nested loops visit, in the order they visit them:
\* i_start and start advance by the step in size_t and are narrowed to the
\* key's unsigned type.
Visited(p) ==
    [n \in 1..(p.i.slicelength * p.j.slicelength) |->
        <<Wrap32(p.i.start + ((n - 1) \div p.j.slicelength) * p.i.step),
          Wrap32(p.j.start + ((n - 1) % p.j.slicelength) * p.j.step)>>]

\* The map after the gets a range read makes, one cell after the other up to
\* the first get that throws.
RECURSIVE ReadAll(_, _, _)
ReadAll(m, cells, filter) ==
    IF cells = <<>>
    THEN m.data_
    ELSE LET after == [m EXCEPT !.data_ = MatrixGetData(m, Head(cells), filter)]
         IN  IF MatrixGet(m, Head(cells), filter).kind # "value"
             THEN after.data_
             ELSE ReadAll(after, Tail(cells), filter)

\* Matrix.get(slices): the triples of the visited cells that are not NaN.
Keep(m, c) == ~isnan(MatrixGet(m, c, TRUE).v)

GetSparse(m, slices) ==
    LET p == parse_tuple(MatrixShape(m), slices)
        found == SelectSeq(Visited(p), LAMBDA c : Keep(m, c))
    IN  IF p.kind # "ok"
        THEN [kind |-> p.kind, i |-> <<>>, j |-> <<>>, x |-> <<>>]
        ELSE [kind |-> "ok",
              i |-> [k \in 1..Len(found) |-> found[k][1]],
              j |-> [k \in 1..Len(found) |-> found[k][2]],
              x |-> [k \in 1..Len(found) |-> MatrixGet(m, found[k], TRUE).v]]

\* Matrix.__getitem__(slices): the block, or the first error a get raises.
GetItem(m, slices) ==
    LET p == parse_tuple(MatrixShape(m), slices)
        visited == Visited(p)
        cells == [n \in DOMAIN visited |-> MatrixGet(m, visited[n], FALSE)]
        failed == {n \in DOMAIN cells : cells[n].kind # "value"}
        first == CHOOSE n \in failed : \A k \in failed : n <= k
    IN  IF p.kind # "ok"
        THEN [kind |-> p.kind, shape |-> <<0, 0>>, data |-> <<>>,
              error |-> Returned(NaN)]
        ELSE IF failed # {}
             THEN [kind |-> "OutOfBounds", shape |-> <<0, 0>>, data |-> <<>>,
                   error |-> cells[first]]
             ELSE [kind |-> "ok",
                   shape |-> <<p.i.slicelength, p.j.slicelength>>,
                   data |-> [n \in DOMAIN cells |-> cells[n].v],
                   error |-> Returned(NaN)]

\* Mutant: a range write that reads its block column by column.
SetItem_ColumnMajor(m, slices, x) ==
    LET p == parse_tuple(MatrixShape(m), slices)
    IN  IF p.kind # "ok"
        THEN [kind |-> p.kind, m |-> m]
        ELSE IF \/ ndim(x) # 2
                \/ x.shape[1] # p.i.slicelength
                \/ x.shape[2] # p.j.slicelength
             THEN [kind |-> "ShapeMismatch", m |-> m]
             ELSE LET visited == Visited(p)
                  IN  [kind |-> "ok",
                       m |-> SetAll(m, [n \in DOMAIN visited |->
                           <<visited[n],
                             x.data[((n - 1) % p.j.slicelength)
                                        * p.i.slicelength
                                    + ((n - 1) \div p.j.slicelength) + 1]>>])]

\* Mutant: a range write that copies the cells the block has before it
\* compares the block's shape with the resolved one.
SetItem_WritingFirst(m, slices, x) ==
    LET p == parse_tuple(MatrixShape(m), slices)
        visited == Visited(p)
        cells == {n \in DOMAIN visited : n <= Len(x.data)}
        after == SetAll(m, [n \in 1..Cardinality(cells) |->
                               <<visited[n], x.data[n]>>])
    IN  IF p.kind # "ok"
        THEN [kind |-> p.kind, m |-> m]
        ELSE IF \/ ndim(x) # 2
                \/ x.shape[1] # p.i.slicelength
                \/ x.shape[2] # p.j.slicelength
             THEN [kind |-> "ShapeMismatch", m |-> after]
             ELSE [kind |-> "ok", m |-> after]

\* The map after Matrix.get(slices) and after Matrix.__getitem__(slices).
GetSparseData(m, slices) ==
    LET p == parse_tuple(MatrixShape(m), slices)
    IN  IF p.kind # "ok" THEN m.data_ ELSE ReadAll(m, Visited(p), TRUE)

GetItemData(m, slices) ==
    LET p == parse_tuple(MatrixShape(m), slices)
    IN  IF p.kind # "ok" THEN m.data_ ELSE ReadAll(m, Visited(p), FALSE)

\* Matrix.__setitem__(slices, x): the outcome and the object after the call.
SetItem(m, slices, x) ==
    LET p == parse_tuple(MatrixShape(m), slices)
    IN  IF p.kind # "ok"
        THEN [kind |-> p.kind, m |-> m]
        ELSE IF \/ ndim(x) # 2
                \/ x.shape[1] # p.i.slicelength
                \/ x.shape[2] # p.j.slicelength
             THEN [kind |-> "ShapeMismatch", m |-> m]
             ELSE LET visited == Visited(p)
                  IN  [kind |-> "ok",
                       m |-> SetAll(m, [n \in DOMAIN visited |->
                                           <<visited[n], x.data[n]>>])]

\* ------------------------------------------------------------------ inputs
Size(shape) == IF Len(shape) = 1 THEN shape[1] ELSE shape[1] * shape[2]

Arrays(shape, elements) ==
    {Array(shape, data) : data \in [1..Size(shape) -> elements]}

Filled(shape, element) == Array(shape, [n \in 1..Size(shape) |-> element])

\* The shape of a bulk-set argument: n elements in one dimension, unless it
\* is the odd one out, which is two-dimensional or one element longer.
BatchShape(n, odd) ==
    CASE odd = "ndim" -> <<n, 1>>
      [] odd = "length" -> <<n + 1>>
      [] OTHER -> <<n>>

\* The shape of the block handed to a range write: the resolved shape, one
\* row too many, or one-dimensional.
BlockShape(p, form) ==
    CASE form = "fit" -> <<p.i.slicelength, p.j.slicelength>>
      [] form = "tall" -> <<p.i.slicelength + 1, p.j.slicelength>>
      [] form = "flat" -> <<p.i.slicelength * p.j.slicelength>>

\* A block whose cells all differ: cell n in row-major order holds n, or
\* NaN in the first cell when the block has a hole.
Numbered(shape, hole) ==
    Array(shape, [n \in 1..Size(shape) |->
                     IF hole /\ n = 1 THEN NaN ELSE D(n)])

\* The selectors tried on each axis: every index, and slices that are open,
\* strided and clamped at the far end, reversed, and of step zero.
Selectors ==
    {Index(n) : n \in Idx}
        \cup {Slice(None, None, None),
              Slice(None, Some(MaxIdx + 2), Some(2)),
              Slice(None, None, Some(-1)),
              Slice(None, None, Some(0))}

Tuples == (Selectors \X Selectors) \cup {<<Index(0)>>}

\* ------------------------------------------------------------------- state
VARIABLES
    data_,      \* the stored map
    i_,         \* largest physical row set
    j_,         \* largest physical column set
    ji_,        \* orientation flag
    ret,        \* the call that has just ended, its outcome and the size of
                \* what it handled, until the caller takes it
    written,    \* history: logical coordinate -> last value written to it
    other       \* the members i_, j_, ji_ of a copy of the object, once a
                \* copy has been made; the copy's data_ points to the same map

vars == <<data_, i_, j_, ji_, ret, written, other>>

Self == [data_ |-> data_, i_ |-> i_, j_ |-> j_, ji_ |-> ji_]

Become(m) ==
    /\ data_' = m.data_
    /\ i_' = m.i_
    /\ j_' = m.j_
    /\ ji_' = m.ji_

Idle == [op |-> "none", kind |-> "none", out |-> <<>>]

Ret(op, kind, out) == [op |-> op, kind |-> kind, out |-> out]

\* The naive reference: a write at logical c replaces what is recorded at c,
\* and a transpose moves what is recorded at (a,b) to (b,a).
RECURSIVE RecordAll(_, _)
RecordAll(w, writes) ==
    IF writes = <<>>
    THEN w
    ELSE RecordAll(InsertOrAssign(w, Head(writes)[1], Head(writes)[2]),
                   Tail(writes))

Flip(w) == [k \in {swap_key(c) : c \in DOMAIN w} |-> w[swap_key(k)]]

Fits(m) == Cardinality(DOMAIN m.data_) <= MaxEntries

Room == MaxEntries - Cardinality(DOMAIN data_)

Init ==
    /\ data_ = NewMatrix.data_
    /\ i_ = NewMatrix.i_
    /\ j_ = NewMatrix.j_
    /\ ji_ = NewMatrix.ji_
    /\ ret = Idle
    /\ written = EmptyMap
    /\ other = None

\* ----------------------------------------------------------------- actions
CallSet ==
    /\ ret = Idle
    /\ UNCHANGED other
    /\ \E key \in Key, x \in Doubles :
        LET m == MatrixSet(Self, key, x)
        IN  /\ Fits(m)
            /\ Become(m)
            /\ ret' = Ret("set", "ok", <<>>)
            /\ written' = RecordAll(written, <<<<key, x>>>>)

CallGet ==
    /\ ret = Idle
    /\ UNCHANGED other
    /\ \E key \in Key, filter \in BOOLEAN :
        /\ data_' = MatrixGetData(Self, key, filter)
        /\ UNCHANGED <<i_, j_, ji_, written>>
        /\ ret' = Ret("get", MatrixGet(Self, key, filter).kind, <<>>)

CallShape ==
    /\ ret = Idle
    /\ UNCHANGED other
    /\ UNCHANGED <<data_, i_, j_, ji_, written>>
    /\ ret' = Ret("shape", "ok", <<>>)

CallTranspose ==
    /\ ret = Idle
    /\ UNCHANGED other
    /\ Become(MatrixTranspose(Self))
    /\ ret' = Ret("transpose", "ok", <<>>)
    /\ written' = Flip(written)

CallBulkSet ==
    /\ ret = Idle
    /\ UNCHANGED other
    /\ \E n \in 0..MaxBatch :
        \/ /\ n <= Room
           /\ \E i \in Arrays(<<n>>, Idx), j \in Arrays(<<n>>, Idx),
                 x \in Arrays(<<n>>, Doubles) :
                LET r == BulkSet(Self, i, j, x)
                IN  /\ Become(r.m)
                    /\ ret' = Ret("bulk_set", r.kind, <<n>>)
                    /\ written' = RecordAll(written,
                           [ix \in 1..n |->
                               <<<<i.data[ix], j.data[ix]>>, x.data[ix]>>])
        \/ \E which \in {"i", "j", "x"}, odd \in {"ndim", "length"} :
                LET i == Filled(BatchShape(n, IF which = "i" THEN odd ELSE "no"), 0)
                    j == Filled(BatchShape(n, IF which = "j" THEN odd ELSE "no"), 0)
                    x == Filled(BatchShape(n, IF which = "x" THEN odd ELSE "no"),
                                D(1))
                    r == BulkSet(Self, i, j, x)
                IN  /\ Become(r.m)
                    /\ ret' = Ret("bulk_set", r.kind, <<>>)
                    /\ UNCHANGED written

CallGetSparse ==
    /\ ret = Idle
    /\ UNCHANGED other
    /\ \E slices \in Tuples :
        LET r == GetSparse(Self, slices)
        IN  /\ data_' = GetSparseData(Self, slices)
            /\ UNCHANGED <<i_, j_, ji_, written>>
            /\ ret' = Ret("get_sparse", r.kind, <<Len(r.x)>>)

CallGetItem ==
    /\ ret = Idle
    /\ UNCHANGED other
    /\ \E slices \in Tuples :
        LET r == GetItem(Self, slices)
        IN  /\ data_' = GetItemData(Self, slices)
            /\ UNCHANGED <<i_, j_, ji_, written>>
            /\ ret' = Ret("getitem", r.kind, <<>>)

\* The block handed to a range write: of the resolved shape, one row too
\* many, or one-dimensional.
CallSetItem ==
    /\ ret = Idle
    /\ UNCHANGED other
    /\ \E slices \in Tuples, form \in {"fit", "tall", "flat"} :
        LET p == parse_tuple(MatrixShape(Self), slices)
            shape == BlockShape(p, form)
        IN  IF p.kind = "ok" /\ form = "fit"
            THEN /\ Size(shape) <= Room
                 /\ \E x \in Arrays(shape, Doubles) :
                    LET r == SetItem(Self, slices, x)
                        visited == Visited(p)
                    IN  /\ Become(r.m)
                        /\ ret' = Ret("setitem", r.kind, <<>>)
                        /\ written' = RecordAll(written,
                               [n \in DOMAIN visited |->
                                   <<visited[n], x.data[n]>>])
            ELSE LET x == Filled(shape, D(1))
                     r == SetItem(Self, slices, x)
                 IN  /\ Become(r.m)
                     /\ ret' = Ret("setitem", r.kind, <<>>)
                     /\ UNCHANGED written

\* The caller takes the outcome of the call.
Return ==
    /\ ret # Idle
    /\ ret' = Idle
    /\ UNCHANGED <<data_, i_, j_, ji_, written, other>>

Next ==
    \/ CallSet
    \/ CallGet
    \/ CallShape
    \/ CallTranspose
    \/ CallBulkSet
    \/ CallGetSparse
    \/ CallGetItem
    \/ CallSetItem
    \/ Return

Spec == Init /\ [][Next]_vars

\* ------------------------------------------------------- a copy of a Matrix
\* Matrix declares no copy constructor, so a copy is made member by member:
\* i_, j_ and ji_ by value, and data_, a std::shared_ptr, as a second pointer
\* to the one map.
Other == [data_ |-> data_, i_ |-> other[1].i_, j_ |-> other[1].j_,
          ji_ |-> other[1].ji_]

Members(m) == Some([i_ |-> m.i_, j_ |-> m.j_, ji_ |-> m.ji_])

CopyMatrix ==
    /\ ret = Idle
    /\ other = None
    /\ other' = Members(Self)
    /\ ret' = Ret("copy", "ok", <<>>)
    /\ UNCHANGED <<data_, i_, j_, ji_, written>>

\* set and transpose called on the copy.
OtherSet ==
    /\ ret = Idle
    /\ other # None
    /\ \E key \in Key, x \in Doubles :
        LET m == MatrixSet(Other, key, x)
        IN  /\ Fits(m)
            /\ data_' = m.data_
            /\ other' = Members(m)
            /\ ret' = Ret("copy.set", "ok", <<>>)
            /\ UNCHANGED <<i_, j_, ji_, written>>

OtherTranspose ==
    /\ ret = Idle
    /\ other # None
    /\ other' = Members(MatrixTranspose(Other))
    /\ data_' = MatrixTranspose(Other).data_
    /\ ret' = Ret("copy.transpose", "ok", <<>>)
    /\ UNCHANGED <<i_, j_, ji_, written>>

NextCopy ==
    \/ CopyMatrix
    \/ CallSet
    \/ CallTranspose
    \/ OtherSet
    \/ OtherTranspose
    \/ Return

SpecCopy == Init /\ [][NextCopy]_vars

\* ------------------------------------------------------------ properties
\* What a caller can observe of a matrix: its shape and what every get
\* returns or raises.
Observe(m) ==
    [shape |-> MatrixShape(m),
     get |-> [c \in Key, filter \in BOOLEAN |-> MatrixGet(m, c, filter)]]

\* The largest element of a non-empty set of numbers.
Largest(S) == CHOOSE n \in S : \A k \in S : k <= n

\* C1: every coordinate written at least once, addressed in the current
\* orientation, is read back by get with filter=false and with filter=true
\* as the value of the most recent write to it, and never fails; a write made
\* at (a,b) before a transpose is read back at (b,a) after it.
C1_ReadYourWrites ==
    \A c \in DOMAIN written :
        /\ MatrixGet(Self, c, FALSE) = Returned(written[c])
        /\ MatrixGet(Self, c, TRUE) = Returned(written[c])

\* C1 happens: under the transposed orientation a batch has just been written
\* and two cells, one of them off the diagonal, are read back.
C1_Witness ==
    /\ ji_
    /\ ret = Ret("bulk_set", "ok", <<2>>)
    /\ Cardinality(DOMAIN written) = 2
    /\ \E c \in DOMAIN written :
        c[1] # c[2] /\ MatrixGet(Self, c, FALSE) = Returned(D(1))

\* C2: shape() is (0,0) exactly when nothing has been set, and otherwise
\* (1 + largest row set, 1 + largest column set) in the current orientation,
\* whatever the order, the repetitions and the values of the writes.
C2_ShapeIsLargestPlusOne ==
    MatrixShape(Self) =
        IF DOMAIN written = {}
        THEN <<0, 0>>
        ELSE <<1 + Largest({c[1] : c \in DOMAIN written}),
               1 + Largest({c[2] : c \in DOMAIN written})>>

\* C3: in every state, the new empty matrix included, get with filter=false
\* fails with OutOfBounds for every coordinate outside the shape that shape()
\* reports.
C3_OutsideShapeFails ==
    \A c \in Key :
        (c[1] >= MatrixShape(Self)[1] \/ c[2] >= MatrixShape(Self)[2])
            => MatrixGet(Self, c, FALSE).kind = "OutOfBounds"

\* C4: once something has been set, an OutOfBounds raised by get names an
\* offending axis in the caller's numbering (0 the caller's row, 1 the
\* caller's column), the index the caller gave on that axis and the size
\* shape() reports on that axis, whatever the orientation.
C4_ErrorInCallerNumbering ==
    \A c \in Key :
        LET r == MatrixGet(Self, c, FALSE)
        IN  (DOMAIN written # {} /\ r.kind = "OutOfBounds")
                => /\ r.axis \in {0, 1}
                   /\ r.index = c[r.axis + 1]
                   /\ r.size = MatrixShape(Self)[r.axis + 1]
                   /\ r.index >= r.size

\* C4 happens: a get has just failed on a transposed, non-empty matrix, and
\* some get fails on the caller's column.
C4_Witness ==
    /\ ji_
    /\ DOMAIN written # {}
    /\ ret = Ret("get", "OutOfBounds", <<>>)
    /\ \E c \in Key : /\ MatrixGet(Self, c, FALSE).kind = "OutOfBounds"
                      /\ MatrixGet(Self, c, FALSE).axis = 1

\* C5: a coordinate never written that lies inside shape() is read by get
\* with filter=false as 0, without failing, under either orientation.
C5_UnwrittenInsideIsZero ==
    \A c \in Key :
        (/\ c \notin DOMAIN written
         /\ c[1] < MatrixShape(Self)[1]
         /\ c[2] < MatrixShape(Self)[2])
            => MatrixGet(Self, c, FALSE) = Returned(D(0))

\* C5 happens: a get has just returned on a transposed matrix that has an
\* unwritten coordinate inside its shape.
C5_Witness ==
    /\ ji_
    /\ ret = Ret("get", "value", <<>>)
    /\ \E c \in Key : /\ c \notin DOMAIN written
                      /\ c[1] < MatrixShape(Self)[1]
                      /\ c[2] < MatrixShape(Self)[2]

\* C6: get with filter=true never fails, inside or outside the shape, and
\* returns NaN for a coordinate never written; set and the filtering reads
\* never end in OutOfBounds.
C6_FilterNeverFails ==
    /\ \A c \in Key :
        /\ MatrixGet(Self, c, TRUE).kind = "value"
        /\ c \notin DOMAIN written => MatrixGet(Self, c, TRUE) = Returned(NaN)
    /\ ret.op \in {"set", "bulk_set", "get_sparse"} => ret.kind # "OutOfBounds"

\* C6 happens: on a non-empty matrix some unwritten coordinate lies outside
\* the shape, where get without filter fails and get with filter does not.
C6_Witness ==
    /\ DOMAIN written # {}
    /\ ret.op = "get"
    /\ \E c \in Key : /\ c \notin DOMAIN written
                      /\ MatrixGet(Self, c, FALSE).kind = "OutOfBounds"
                      /\ MatrixGet(Self, c, TRUE) = Returned(NaN)

\* C7: two transposes in a row leave shape() and the outcome of every get,
\* in both filter modes, as they were.
C7_TransposeTwice ==
    Observe(MatrixTranspose(MatrixTranspose(Self))) = Observe(Self)

\* C7 happens: a transpose has just run on a matrix whose shape is not
\* square, so that one transpose does change what is observed.
C7_Witness ==
    /\ ret.op = "transpose"
    /\ MatrixShape(Self)[1] # MatrixShape(Self)[2]
    /\ Observe(MatrixTranspose(Self)) # Observe(Self)

\* C8: a transpose turns shape (R,C) into (C,R), makes get((a,b)) return
\* what get((b,a)) returned before it and fail exactly when that failed, and
\* changes the orientation flag only.
C8_TransposeSwaps ==
    [][ret'.op = "transpose" =>
        /\ MatrixShape(Self') = swap_key(MatrixShape(Self))
        /\ \A c \in Key, filter \in BOOLEAN :
            /\ MatrixGet(Self', c, filter).kind
                   = MatrixGet(Self, swap_key(c), filter).kind
            /\ MatrixGet(Self', c, filter).v
                   = MatrixGet(Self, swap_key(c), filter).v
        /\ data_' = data_
        /\ i_' = i_
        /\ j_' = j_
        /\ ji_' = ~ji_]_vars

\* C8 happens: a transpose has just run on a matrix that is not square and
\* holds a value off the diagonal.
C8_Witness ==
    /\ ret.op = "transpose"
    /\ MatrixShape(Self)[1] # MatrixShape(Self)[2]
    /\ \E c \in DOMAIN written : c[1] # c[2] /\ written[c] = D(1)

C10_SparseReadIsStoredEntries ==
    \A slices \in Tuples :
        LET r == GetSparse(Self, slices)
            p == parse_tuple(MatrixShape(Self), slices)
            stored == SelectSeq(Visited(p), LAMBDA c : c \in DOMAIN written)
        IN  r.kind = "ok" =>
                /\ r.i = [k \in 1..Len(stored) |-> stored[k][1]]
                /\ r.j = [k \in 1..Len(stored) |-> stored[k][2]]
                /\ r.x = [k \in 1..Len(stored) |-> written[stored[k]]]

C12_BulkSetValidatesThenInOrder ==
    [](ret = Idle =>
    /\ \A n \in 0..MaxBatch, which \in {"i", "j", "x"},
          odd \in {"ndim", "length"} :
        LET i == Filled(BatchShape(n, IF which = "i" THEN odd ELSE "no"), 0)
            j == Filled(BatchShape(n, IF which = "j" THEN odd ELSE "no"), 0)
            x == Filled(BatchShape(n, IF which = "x" THEN odd ELSE "no"), D(1))
            r == BulkSet(Self, i, j, x)
        IN  r.kind = "InvalidArgument" /\ r.m = Self
    /\ \A c \in Key, pair \in {"same", "swapped"}, v1 \in Doubles,
          v2 \in Doubles :
        LET d == IF pair = "same" THEN c ELSE swap_key(c)
            r == BulkSet(Self, Array(<<2>>, <<c[1], d[1]>>),
                         Array(<<2>>, <<c[2], d[2]>>), Array(<<2>>, <<v1, v2>>))
        IN  /\ r.kind = "ok"
            /\ r.m = MatrixSet(MatrixSet(Self, c, v1), d, v2)
            /\ MatrixGet(r.m, d, TRUE) = Returned(v2)
            /\ c # d => MatrixGet(r.m, c, TRUE) = Returned(v1))

\* C12 happens: a bulk set of two entries has just ended and the map holds
\* one key, so both entries were for one coordinate, which is read back as
\* the finite value written last.
C12_Witness ==
    /\ ret = Ret("bulk_set", "ok", <<2>>)
    /\ Cardinality(DOMAIN data_) = 1
    /\ \E c \in DOMAIN written :
        written[c] = D(1) /\ MatrixGet(Self, c, TRUE) = Returned(D(1))

\* C13: set accepts every coordinate of the key's unsigned type, and after
\* set((r,c),v) the shape reported has more rows than r and more columns
\* than c, also when r or c is the largest value of the type.
C13_WrittenInsideShape ==
    \A c \in Key, v \in Doubles :
        LET m == MatrixSet(Self, c, v)
        IN  MatrixShape(m)[1] > c[1] /\ MatrixShape(m)[2] > c[2]

\* C14: a slice is resolved against the current shape, so that every
\* coordinate it selects lies in [0, extent) of its axis, and a slice whose
\* step is zero or negative is refused with InvalidArgument by the dense
\* range read, the sparse range read and the range write alike, with nothing
\* written.
C14_StepMustBePositive ==
    \A slices \in Tuples :
        LET shape == MatrixShape(Self)
            p == parse_tuple(shape, slices)
            visited == Visited(p)
            bad == \E axis \in DOMAIN slices :
                       /\ ~slices[axis].index
                       /\ slices[axis].step # None
                       /\ slices[axis].step[1] <= 0
            w == SetItem(Self, slices, Filled(BlockShape(p, "fit"), D(1)))
        IN  /\ p.kind = "ok" =>
                \A axis \in DOMAIN slices, n \in DOMAIN visited :
                    ~slices[axis].index => visited[n][axis] < shape[axis]
            /\ bad =>
                /\ GetItem(Self, slices).kind = "InvalidArgument"
                /\ GetSparse(Self, slices).kind = "InvalidArgument"
                /\ w.kind = "InvalidArgument"
                /\ w.m = Self

\* C15: after a successful range write of a block, the dense range read with
\* the same two selectors succeeds and returns a block of the same shape
\* whose cells equal the cells of the block written, for single indices
\* (also beyond the shape), for slices and for a mix of the two, in every
\* state and orientation. Stated of every object a caller can make the calls
\* on, for blocks whose cells all differ.
C15_RangeRoundTrip ==
    [](ret = Idle =>
        \A slices \in Tuples, hole \in BOOLEAN :
            LET p == parse_tuple(MatrixShape(Self), slices)
                x == Numbered(BlockShape(p, "fit"), hole)
                w == SetItem(Self, slices, x)
                g == GetItem(w.m, slices)
            IN  w.kind = "ok" =>
                    /\ g.kind = "ok"
                    /\ g.shape = x.shape
                    /\ g.data = x.data)

\* C15 happens: a range write has just succeeded on a transposed matrix, and
\* a selector pair of one index and one slice reads a block of two cells,
\* both written, back from it.
C15_Witness ==
    /\ ret = Ret("setitem", "ok", <<>>)
    /\ ji_
    /\ \E slices \in Tuples :
        LET g == GetItem(Self, slices)
            p == parse_tuple(MatrixShape(Self), slices)
        IN  /\ Len(slices) = 2
            /\ slices[1].index # slices[2].index
            /\ g.kind = "ok"
            /\ Len(g.data) = 2
            /\ \A n \in DOMAIN g.data :
                /\ Visited(p)[n] \in DOMAIN written
                /\ g.data[n] = written[Visited(p)[n]]

\* C16: once a Matrix has been copied, a set or a transpose made through one
\* of the two objects leaves what shape() and every get, in both filter
\* modes, return on the other object as it was.
C16_CopiesIndependent ==
    [][(other # None /\ other' # None) =>
        /\ ret'.op \in {"set", "transpose"}
               => Observe(Other') = Observe(Other)
        /\ ret'.op \in {"copy.set", "copy.transpose"}
               => Observe(Self') = Observe(Self)]_vars

\* C17: reads never mutate: get in both filter modes, whether it returns a
\* stored value, 0 or NaN or fails with OutOfBounds, shape(), the dense range
\* read and the sparse range read leave the map (nothing is inserted for an
\* absent key that is probed), the bound and the orientation flag as they
\* were.
C17_ReadsNeverMutate ==
    [][ret'.op \in {"get", "shape", "get_sparse", "getitem"}
          => UNCHANGED <<data_, i_, j_, ji_>>]_vars

\* C17 happens: a dense range read has just returned a block that holds the
\* default 0 of a cell inside the shape that is not stored.
C17_Witness ==
    /\ ret = Ret("getitem", "ok", <<>>)
    /\ DOMAIN data_ # {}
    /\ \E slices \in Tuples :
        LET g == GetItem(Self, slices)
        IN  g.kind = "ok" /\ \E n \in DOMAIN g.data : g.data[n] = D(0)

\* C18: for one object, every stored key (r,c) has r <= i_ and c <= j_, and
\* when the map is not empty i_ and j_ are each the coordinate of some
\* stored key; hence every coordinate for which get returns a stored value
\* lies inside shape(); and the stored keys are physical: what was written
\* at logical (a,b) under the flag is stored as (b,a).
C18_StoredKeysWithinBound ==
    /\ \A k \in DOMAIN data_ : k[1] <= i_ /\ k[2] <= j_
    /\ DOMAIN data_ # {} =>
        /\ \E k \in DOMAIN data_ : k[1] = i_
        /\ \E k \in DOMAIN data_ : k[2] = j_
    /\ \A c \in Key :
        Physical(Self, c) \in DOMAIN data_ =>
            /\ MatrixGet(Self, c, FALSE) = Returned(data_[Physical(Self, c)])
            /\ c[1] < MatrixShape(Self)[1]
            /\ c[2] < MatrixShape(Self)[2]
    /\ DOMAIN data_ = {Physical(Self, c) : c \in DOMAIN written}

\* C19: a range write whose two selectors are both slices never changes
\* shape(): every coordinate it writes lies inside the shape it was resolved
\* against. On a matrix in which nothing is stored both slices have length
\* 0, the write stores nothing, and a block that has cells is refused with
\* ShapeMismatch. Stated of every object a caller can make the call on, for
\* slices that resolve.
C19_SliceWriteKeepsShape ==
    ret = Idle =>
        \A slices \in Tuples :
            LET p == parse_tuple(MatrixShape(Self), slices)
                w == SetItem(Self, slices, Numbered(BlockShape(p, "fit"), FALSE))
            IN  (Len(slices) = 2 /\ ~slices[1].index /\ ~slices[2].index
                 /\ p.kind = "ok") =>
                    /\ w.kind = "ok"
                    /\ MatrixShape(w.m) = MatrixShape(Self)
                    /\ DOMAIN data_ = {} =>
                        /\ p.i.slicelength = 0
                        /\ p.j.slicelength = 0
                        /\ w.m = Self
                        /\ \A rows \in 1..2, columns \in 1..2 :
                            SetItem(Self, slices,
                                    Filled(<<rows, columns>>, D(1)))
                                = [kind |-> "ShapeMismatch", m |-> Self]

\* C19 happens: a range write has just ended on a matrix of more than one
\* cell, on which a write through two slices stores a value in a cell that
\* held none and a write through two indices adds a row to the shape.
C19_Witness ==
    /\ ret = Ret("setitem", "ok", <<>>)
    /\ \E slices \in Tuples :
        LET p == parse_tuple(MatrixShape(Self), slices)
            w == SetItem(Self, slices, Numbered(BlockShape(p, "fit"), FALSE))
        IN  /\ Len(slices) = 2 /\ ~slices[1].index /\ ~slices[2].index
            /\ w.kind = "ok"
            /\ DOMAIN w.m.data_ # DOMAIN data_
            /\ MatrixShape(w.m) = MatrixShape(Self)
    /\ \E key \in Key :
        LET w == SetItem(Self, <<Index(key[1]), Index(key[2])>>,
                         Filled(<<1, 1>>, D(1)))
        IN  /\ w.kind = "ok"
            /\ MatrixShape(w.m)[1] > MatrixShape(Self)[1]
            /\ MatrixShape(w.m)[2] = MatrixShape(Self)[2]

====
